---- MODULE Spec2Model ----
(***************************************************************************)
(* Model of ingest_files.py: the upload-and-parse pipeline against a       *)
(* RAGFlow dataset.  The pipeline is one sequential process; `pc` is its   *)
(* position.  The dataset (`remote`) and the local folder (`folder`) are   *)
(* the environment.  Every call into the SDK or the file system is one     *)
(* action, and the outcome of the call (success, exception, status seen)   *)
(* is chosen nondeterministically.                                         *)
(***************************************************************************)
EXTENDS Naturals, Sequences, FiniteSets, TLC

\* ----------------------------------------------------------------- bounds

\* Whole runs of the script (Spec): most documents in the dataset before the
\* first run, most unsuccessful polls the collaborator causes in one polling
\* session.
MainRemote == 1
MainPolls == 1
\* main's steps 1 to 3 and upload_in_batches alone (SpecFilter, SpecUpload):
\* most local files, most documents listed, largest batch size.
MaxFiles == 3
MaxRemote == 2
MaxBatch == 3
\* parse_sequentially alone (SpecParse): most documents listed, most
\* unsuccessful polls in one polling session.
ParseDocs == 2
MaxPolls == 6
\* Largest page size drawn when stream_documents is given one.
MaxPage == 2

\* ------------------------------------------------------ program constants

BATCH_SIZE == 4
PAGE_SIZE == 100
INITIAL_BACKOFF == 1
MAX_BACKOFF == 16
SOURCE_FOLDER == <<"Papers">>
DATASET_NAME == "Chemistry"

\* ------------------------------------------------------------ environment

\* Files that may exist under SOURCE_FOLDER, as pathlib parts.
Paths ==
  { <<"Papers", "a.txt">>, <<"Papers", "A.txt">>, <<"Papers", "sub", "a.txt">>,
    <<"Papers", "sub", "b.txt">> }

\* Names a document of the dataset may carry before the first run.
RemoteNames == { "a.txt", "A.txt", "sub/a.txt" }

\* The files and the names drawn for whole runs of the script.
MainPaths == { <<"Papers", "a.txt">>, <<"Papers", "sub", "b.txt">> }
MainNames == { "a.txt", "sub/b.txt" }

\* Document.run as the SDK reports it; the code tests only DONE and FAIL.
RunStatus == { "UNSTART", "RUNNING", "DONE", "FAIL" }

NoDoc == [id |-> 0, name |-> "", run |-> ""]

Min(a, b) == IF a < b THEN a ELSE b

Range(s) == { s[n] : n \in 1..Len(s) }

\* Duplicate-free sequences over S of length at most n (rglob yields each
\* file once, in an order the file system chooses).
InjSeqs(S, n) ==
  UNION { { s \in [1..m -> S] : \A a, b \in 1..m : a # b => s[a] # s[b] } : m \in 0..n }

\* Datasets of at most n documents; the id of a document is its rank.
RemoteSeqs(n, names) ==
  UNION { { [d \in 1..m |-> [id |-> d, name |-> nm[d], run |-> st[d]]] :
              nm \in [1..m -> names], st \in [1..m -> RunStatus] } : m \in 0..n }

\* ---------------------------------------------------------- pure helpers

\* Path.relative_to(root): the parts after root's.
RelativeTo(path, root) == SubSeq(path, Len(root) + 1, Len(path))

\* PurePath.as_posix(): the parts joined by "/".
RECURSIVE AsPosix(_)
AsPosix(parts) ==
  IF Len(parts) = 0 THEN "."
  ELSE IF Len(parts) = 1 THEN parts[1]
  ELSE parts[1] \o "/" \o AsPosix(Tail(parts))

\* build_document's display_name (the blob is not modelled).
DisplayName(path, root) == AsPosix(RelativeTo(path, root))

\* dataset.list_documents(page, page_size): one page of the listing.
ListDocuments(ds, p, size) ==
  SubSeq(ds, (p - 1) * size + 1, Min(p * size, Len(ds)))

\* Mutant: the file name (Path.name) is compared instead of the relative path.
RECURSIVE FilterByFileName(_, _, _)
FilterByFileName(paths, root, ex) ==
  IF paths = <<>> THEN <<>>
  ELSE IF Head(paths)[Len(Head(paths))] \notin ex
       THEN <<Head(paths)>> \o FilterByFileName(Tail(paths), root, ex)
       ELSE FilterByFileName(Tail(paths), root, ex)

\* Mutant: nothing is filtered out, every local file is uploaded again.
FilterNothing(paths, root, ex) == paths

\* main step 3: keep the paths whose relative POSIX name is not in ex.
RECURSIVE FilterDuplicates(_, _, _)
FilterDuplicates(paths, root, ex) ==
  IF paths = <<>> THEN <<>>
  ELSE IF DisplayName(Head(paths), root) \notin ex
       THEN <<Head(paths)>> \o FilterDuplicates(Tail(paths), root, ex)
       ELSE FilterDuplicates(Tail(paths), root, ex)

\* upload_documents on success: the collaborator stores one document per
\* descriptor, with a fresh id and an unstarted run status.
Stored(ds, names) ==
  ds \o [n \in 1..Len(names) |-> [id |-> Len(ds) + n, name |-> names[n], run |-> "UNSTART"]]

\* The dataset with the run status of document d set to st.
WithRun(ds, d, st) ==
  [n \in 1..Len(ds) |-> IF ds[n].id = d THEN [ds[n] EXCEPT !.run = st] ELSE ds[n]]

\* Mutant: the doubling is not capped.
NextBackoffUncapped(b) == b * 2

\* The back-off after one more unsuccessful poll.
NextBackoff(b) == Min(b * 2, MAX_BACKOFF)

\* ------------------------------------------------------------------ state

VARIABLES
  pc,          \* position of the process
  rerun,       \* whether this run of the script follows an earlier one
  raisedBy,    \* the call whose exception ended the process ("": none)
  API_KEY,     \* environment: RAGFLOW_API_KEY as os.getenv gives it ("": unset)
  folder,      \* environment: the files under SOURCE_FOLDER, in rglob order
  remote,      \* environment: the dataset's documents, in listing order
  batch_size,  \* upload_in_batches parameter
  page_size,   \* stream_documents parameter
  pollCap,     \* history bound: sleeps of one polling session that are recorded
  page,        \* stream_documents: page
  existing,    \* main: existing
  file_paths,  \* main: file_paths
  to_upload,   \* main: to_upload / upload_in_batches: file_paths
  i,           \* upload_in_batches: i
  pos,         \* upload_in_batches: paths of the batch already read
  docs,        \* upload_in_batches: docs
  buffer,      \* stream_documents: documents of the page not yet yielded
  idx,         \* parse_sequentially: idx
  doc,         \* parse_sequentially: doc
  backoff,     \* parse_sequentially: backoff (0: not yet bound)
  uploads,     \* history: upload_documents calls of this run
  readFailed,  \* history: paths whose read failed in this run
  visited,     \* history: documents the for loop was given, as listed
  parses,      \* history: async_parse_documents calls of this run
  polled,      \* history: ids a status fetch was issued for in this run
  slept,       \* history: ids whose session slept in this run
  sleeps,      \* history: the first pollCap sleep durations of the current session
  carried,     \* history: value of backoff when the current session began
  observed,    \* history: terminal statuses the polls of this run returned
  lastFetch,   \* history: the latest status fetch since the last parse request
  calls,       \* history: the collaborator calls issued so far
  dataset,     \* main: dataset ("": not bound)
  prevRemote   \* history: the dataset when the earlier run ended

proc == <<rerun, raisedBy>>
env == <<API_KEY, folder, remote, batch_size, page_size, pollCap>>
mainLocals == <<existing, file_paths, to_upload>>
uploadLocals == <<i, pos, docs>>
parseLocals == <<buffer, idx, doc, backoff>>
uploadHist == <<uploads, readFailed>>
sessionHist == <<parses, polled, slept, sleeps, carried, observed, lastFetch>>
parseHist == <<visited, sessionHist>>
vars == <<pc, proc, page, env, dataset, mainLocals, uploadLocals, parseLocals,
          uploadHist, parseHist, calls, prevRemote>>

\* No status fetch was issued since the last parse request.
NoFetch == [id |-> 0, status |-> ""]

\* current = dataset.list_documents(id=doc.id)[0]; status = current.run, or
\* "error" when the fetch raised.
Fetched(st) == [id |-> doc.id, status |-> st]

\* Locals and history of a process that has not started.
Fresh ==
  /\ page = 1 /\ existing = {} /\ file_paths = <<>> /\ to_upload = <<>>
  /\ i = 0 /\ pos = 0 /\ docs = <<>>
  /\ buffer = <<>> /\ idx = 0 /\ doc = NoDoc /\ backoff = 0
  /\ uploads = <<>> /\ readFailed = {}
  /\ visited = <<>>
  /\ parses = <<>> /\ polled = {} /\ slept = {} /\ sleeps = <<>> /\ carried = 0
  /\ observed = {} /\ lastFetch = NoFetch /\ calls = {}

\* The script is started: the module body is about to run.
Init ==
  /\ pc = "start"
  /\ dataset = ""
  /\ rerun = FALSE
  /\ raisedBy = ""
  /\ API_KEY \in { "", "ragflow-xxxxxxxx" }
  /\ folder \in InjSeqs(MainPaths, Cardinality(MainPaths))
  /\ remote \in RemoteSeqs(MainRemote, MainNames)
  /\ batch_size = BATCH_SIZE
  /\ page_size = PAGE_SIZE
  /\ pollCap = MainPolls
  /\ prevRemote = <<>>
  /\ Fresh

\* main's steps 1 to 3 for any dataset, folder and page size.
InitFilter ==
  /\ pc = "main"
  /\ dataset = ""
  /\ rerun = FALSE
  /\ raisedBy = ""
  /\ API_KEY = "ragflow-xxxxxxxx"
  /\ folder \in InjSeqs(Paths, MaxFiles)
  /\ remote \in RemoteSeqs(MaxRemote, RemoteNames)
  /\ batch_size = BATCH_SIZE
  /\ page_size \in 1..MaxPage
  /\ pollCap = 0
  /\ prevRemote = <<>>
  /\ Fresh

\* upload_in_batches called with any list of files and any batch size on an
\* empty dataset; an empty range(0, total, batch_size) returns at once.
InitUpload ==
  /\ dataset = DATASET_NAME
  /\ rerun = FALSE
  /\ raisedBy = ""
  /\ API_KEY = "ragflow-xxxxxxxx"
  /\ folder = <<>>
  /\ remote = <<>>
  /\ batch_size \in 1..MaxBatch
  /\ page_size = PAGE_SIZE
  /\ pollCap = 0
  /\ prevRemote = <<>>
  /\ page = 1 /\ existing = {} /\ file_paths = <<>>
  /\ to_upload \in InjSeqs(Paths, MaxFiles)
  /\ pc = IF to_upload = <<>> THEN "parse" ELSE "build"
  /\ i = 0 /\ pos = 0 /\ docs = <<>>
  /\ buffer = <<>> /\ idx = 0 /\ doc = NoDoc /\ backoff = 0
  /\ uploads = <<>> /\ readFailed = {}
  /\ visited = <<>>
  /\ parses = <<>> /\ polled = {} /\ slept = {} /\ sleeps = <<>> /\ carried = 0
  /\ observed = {} /\ lastFetch = NoFetch /\ calls = {}

\* parse_sequentially called on any dataset, with any page size.
InitParse ==
  /\ pc = "parse"
  /\ dataset = DATASET_NAME
  /\ rerun = FALSE
  /\ raisedBy = ""
  /\ API_KEY = "ragflow-xxxxxxxx"
  /\ folder = <<>>
  /\ remote \in RemoteSeqs(ParseDocs, { "a.txt" })
  /\ batch_size = BATCH_SIZE
  /\ page_size \in 1..MaxPage
  /\ pollCap = MaxPolls
  /\ prevRemote = <<>>
  /\ Fresh

\* parse_sequentially called on any dataset in one page, its polling loops
\* followed beyond the recorded sleeps.
InitLive ==
  /\ pc = "parse"
  /\ dataset = DATASET_NAME
  /\ rerun = FALSE
  /\ raisedBy = ""
  /\ API_KEY = "ragflow-xxxxxxxx"
  /\ folder = <<>>
  /\ remote \in RemoteSeqs(ParseDocs, { "a.txt" })
  /\ batch_size = BATCH_SIZE
  /\ page_size = PAGE_SIZE
  /\ pollCap = MainPolls
  /\ prevRemote = <<>>
  /\ Fresh

\* ------------------------------------------------------------------- main

\* The module body: API_KEY is set, the script goes on to call main().
ConfigOk ==
  /\ pc = "start"
  /\ API_KEY # ""
  /\ pc' = "main"
  /\ UNCHANGED <<dataset, calls, proc, page, env, mainLocals, uploadLocals, parseLocals,
                 uploadHist, parseHist, prevRemote>>

\* The module body: `if not API_KEY: raise EnvironmentError`.
MissingApiKey ==
  /\ pc = "start"
  /\ API_KEY = ""
  /\ pc' = "raised"
  /\ raisedBy' = "API_KEY"
  /\ UNCHANGED <<dataset, calls, rerun, page, env, mainLocals, uploadLocals, parseLocals,
                 uploadHist, parseHist, prevRemote>>

\* main: get_rag_client and find_dataset, the dataset is found; the first
\* stream_documents starts at page 1.
FindDataset ==
  /\ pc = "main"
  /\ pc' = "existing"
  /\ page' = 1
  /\ dataset' = DATASET_NAME
  /\ calls' = calls \cup { "RAGFlow", "list_datasets" }
  /\ UNCHANGED <<proc, env, mainLocals, uploadLocals, parseLocals,
                 uploadHist, parseHist, prevRemote>>

\* Mutant: find_dataset does not raise on an empty lookup, main goes on to
\* list the documents.
DatasetNotFoundGoesOn ==
  /\ pc = "main"
  /\ pc' = "existing"
  /\ page' = 1
  /\ calls' = calls \cup { "RAGFlow", "list_datasets" }
  /\ UNCHANGED <<dataset, proc, env, mainLocals, uploadLocals, parseLocals,
                 uploadHist, parseHist, prevRemote>>

\* find_dataset: list_datasets returns nothing, RuntimeError leaves main.
DatasetNotFound ==
  /\ pc = "main"
  /\ pc' = "raised"
  /\ raisedBy' = "find_dataset"
  /\ calls' = calls \cup { "RAGFlow", "list_datasets" }
  /\ UNCHANGED <<dataset, rerun, page, env, mainLocals, uploadLocals, parseLocals,
                 uploadHist, parseHist, prevRemote>>

\* Mutant: the names of the listed documents are not collected.
ExistingPageDropsNames ==
  /\ pc = "existing"
  /\ ListDocuments(remote, page, page_size) # <<>>
  /\ page' = page + 1
  /\ calls' = calls \cup { "list_documents" }
  /\ UNCHANGED <<dataset, pc, proc, env, mainLocals, uploadLocals, parseLocals,
                 uploadHist, parseHist, prevRemote>>

\* main step 1, a non-empty page: its names join `existing`.
ExistingPage ==
  /\ pc = "existing"
  /\ LET listed == ListDocuments(remote, page, page_size) IN
       /\ listed # <<>>
       /\ existing' = existing \cup { listed[n].name : n \in 1..Len(listed) }
  /\ page' = page + 1
  /\ calls' = calls \cup { "list_documents" }
  /\ UNCHANGED <<dataset, pc, proc, env, file_paths, to_upload, uploadLocals, parseLocals,
                 uploadHist, parseHist, prevRemote>>

\* main step 1: list_documents raises inside stream_documents, which has no
\* try around it; the exception leaves main.
ExistingListRaises ==
  /\ pc = "existing"
  /\ pc' = "raised"
  /\ raisedBy' = "list_documents"
  /\ calls' = calls \cup { "list_documents" }
  /\ UNCHANGED <<dataset, rerun, page, env, mainLocals, uploadLocals, parseLocals,
                 uploadHist, parseHist, prevRemote>>

\* Mutant: step 4 is left out, main goes from the filter to
\* parse_sequentially.
ExistingEndSkipsUpload ==
  /\ pc = "existing"
  /\ ListDocuments(remote, page, page_size) = <<>>
  /\ file_paths' = folder
  /\ to_upload' = FilterDuplicates(folder, SOURCE_FOLDER, existing)
  /\ pc' = "parse"
  /\ page' = 1 /\ buffer' = <<>> /\ idx' = 0
  /\ calls' = calls \cup { "list_documents", "rglob" }
  /\ UNCHANGED <<dataset, proc, env, existing, uploadLocals, doc, backoff,
                 uploadHist, parseHist, prevRemote>>

\* main step 1 ends on the empty page; steps 2 and 3 gather and filter; step 4
\* enters upload_in_batches when there is something to upload, else step 5
\* enters parse_sequentially.
ExistingEnd ==
  /\ pc = "existing"
  /\ ListDocuments(remote, page, page_size) = <<>>
  /\ file_paths' = folder
  /\ to_upload' = FilterDuplicates(folder, SOURCE_FOLDER, existing)
  /\ IF to_upload' # <<>>
     THEN /\ pc' = "build"
          /\ i' = 0 /\ pos' = 0 /\ docs' = <<>>
          /\ UNCHANGED <<page, buffer, idx>>
     ELSE /\ pc' = "parse"
          /\ page' = 1 /\ buffer' = <<>> /\ idx' = 0
          /\ UNCHANGED uploadLocals
  /\ calls' = calls \cup { "list_documents", "rglob" }
  /\ UNCHANGED <<dataset,
                 proc, env, existing, doc, backoff, uploadHist, parseHist, prevRemote>>

\* ------------------------------------------------------ upload_in_batches

\* Mutant: the slice has no upper end, the batch is the whole rest of the list.
BatchPathsUnbounded == SubSeq(to_upload, i + 1, Len(to_upload))

\* batch_paths = file_paths[i : i + batch_size]
BatchPaths == SubSeq(to_upload, i + 1, Min(i + batch_size, Len(to_upload)))

\* After a path of the batch is handled: on to the next one, or to the submit.
AfterRead ==
  /\ pos' = pos + 1
  /\ pc' = IF pos + 1 = Len(BatchPaths) THEN "submit" ELSE "build"

\* build_document succeeds: the descriptor joins docs.
BuildDocument ==
  /\ pc = "build"
  /\ pos < Len(BatchPaths)
  /\ docs' = Append(docs, DisplayName(BatchPaths[pos + 1], SOURCE_FOLDER))
  /\ AfterRead
  /\ calls' = calls \cup { "read_bytes" }
  /\ UNCHANGED <<dataset, proc, page, env, mainLocals, i, parseLocals,
                 uploadHist, parseHist, prevRemote>>

\* Mutant: the try is around the whole inner loop, a failed read ends the
\* building of the batch.
ReadFailsEndsBatch ==
  /\ pc = "build"
  /\ pos < Len(BatchPaths)
  /\ readFailed' = readFailed \cup { BatchPaths[pos + 1] }
  /\ pos' = Len(BatchPaths)
  /\ pc' = "submit"
  /\ calls' = calls \cup { "read_bytes" }
  /\ UNCHANGED <<dataset, proc, page, env, mainLocals, i, docs, parseLocals,
                 uploads, parseHist, prevRemote>>

\* build_document raises (read_bytes fails): logged, the path is left out.
ReadFails ==
  /\ pc = "build"
  /\ pos < Len(BatchPaths)
  /\ readFailed' = readFailed \cup { BatchPaths[pos + 1] }
  /\ AfterRead
  /\ calls' = calls \cup { "read_bytes" }
  /\ UNCHANGED <<dataset, proc, page, env, mainLocals, i, docs, parseLocals,
                 uploads, parseHist, prevRemote>>

\* The for loop over range(0, total, batch_size) after one batch: the next
\* batch, or the return to main, whose step 5 enters parse_sequentially.
NextBatch ==
  IF i + batch_size < Len(to_upload)
  THEN /\ pc' = "build"
       /\ i' = i + batch_size /\ pos' = 0 /\ docs' = <<>>
       /\ UNCHANGED <<page, buffer, idx>>
  ELSE /\ pc' = "parse"
       /\ page' = 1 /\ buffer' = <<>> /\ idx' = 0
       /\ UNCHANGED uploadLocals

\* `if not docs: continue`: every read of the batch failed.
EmptyBatch ==
  /\ pc = "submit"
  /\ docs = <<>>
  /\ NextBatch
  /\ UNCHANGED <<dataset, calls,
                 proc, env, mainLocals, doc, backoff, uploadHist, parseHist, prevRemote>>

\* One upload_documents call, as recorded in the history.
UploadCall(ok) == [docs |-> docs, ok |-> ok, batch |-> (i \div batch_size) + 1]

\* upload_documents succeeds: the collaborator stores the batch.
UploadOk ==
  /\ pc = "submit"
  /\ docs # <<>>
  /\ remote' = Stored(remote, docs)
  /\ uploads' = Append(uploads, UploadCall(TRUE))
  /\ NextBatch
  /\ calls' = calls \cup { "upload_documents" }
  /\ UNCHANGED <<dataset,
                 proc, folder, batch_size, page_size, pollCap, API_KEY, mainLocals, doc, backoff,
                 readFailed, parseHist, prevRemote>>

\* Mutant: the submit is not in a try, the exception leaves upload_in_batches.
UploadFailsPropagates ==
  /\ pc = "submit"
  /\ docs # <<>>
  /\ uploads' = Append(uploads, [docs |-> docs, ok |-> FALSE, batch |-> (i \div batch_size) + 1])
  /\ pc' = "raised"
  /\ raisedBy' = "upload_documents"
  /\ calls' = calls \cup { "upload_documents" }
  /\ UNCHANGED <<dataset, rerun, page, env, mainLocals, uploadLocals, parseLocals,
                 readFailed, parseHist, prevRemote>>

\* upload_documents raises: logged, nothing stored, the loop goes on.
UploadFails ==
  /\ pc = "submit"
  /\ docs # <<>>
  /\ uploads' = Append(uploads, UploadCall(FALSE))
  /\ NextBatch
  /\ calls' = calls \cup { "upload_documents" }
  /\ UNCHANGED <<dataset, proc, env, mainLocals, doc, backoff,
                 readFailed, parseHist, prevRemote>>

\* ----------------------------------------------------- parse_sequentially

\* stream_documents fetches a non-empty page, which it will yield from.
ParseListPage ==
  /\ pc = "parse"
  /\ buffer = <<>>
  /\ ListDocuments(remote, page, page_size) # <<>>
  /\ buffer' = ListDocuments(remote, page, page_size)
  /\ page' = page + 1
  /\ calls' = calls \cup { "list_documents" }
  /\ UNCHANGED <<dataset, pc, proc, env, mainLocals, uploadLocals, idx, doc, backoff,
                 uploadHist, parseHist, prevRemote>>

\* stream_documents fetches an empty page: the for loop and main end.
ParseListEnd ==
  /\ pc = "parse"
  /\ buffer = <<>>
  /\ ListDocuments(remote, page, page_size) = <<>>
  /\ pc' = "done"
  /\ calls' = calls \cup { "list_documents" }
  /\ UNCHANGED <<dataset, proc, page, env, mainLocals, uploadLocals, parseLocals,
                 uploadHist, parseHist, prevRemote>>

\* stream_documents' list_documents raises: the exception leaves
\* parse_sequentially, which has no try around the for loop.
ParseListRaises ==
  /\ pc = "parse"
  /\ buffer = <<>>
  /\ pc' = "raised"
  /\ raisedBy' = "list_documents"
  /\ calls' = calls \cup { "list_documents" }
  /\ UNCHANGED <<dataset, rerun, page, env, mainLocals, uploadLocals, parseLocals,
                 uploadHist, parseHist, prevRemote>>

\* Mutant: the documents of a page are yielded last first.
VisitLast ==
  /\ buffer # <<>>
  /\ doc' = buffer[Len(buffer)]
  /\ buffer' = SubSeq(buffer, 1, Len(buffer) - 1)
  /\ idx' = idx + 1
  /\ visited' = Append(visited, buffer[Len(buffer)])

\* The for loop binds the next yielded document.
Visit ==
  /\ buffer # <<>>
  /\ doc' = Head(buffer)
  /\ buffer' = Tail(buffer)
  /\ idx' = idx + 1
  /\ visited' = Append(visited, Head(buffer))

\* Mutant: the DONE test is missing, every listed document is parsed.
NeedsParseAlways(d) == TRUE

\* `if doc.run == "DONE": continue` is not taken.
NeedsParse(d) == d.run # "DONE"

\* `if doc.run == "DONE": continue`
SkipDone ==
  /\ pc = "parse"
  /\ Visit
  /\ ~NeedsParse(doc')
  /\ UNCHANGED <<dataset, calls, pc, proc, page, env, mainLocals, uploadLocals, backoff,
                 uploadHist, sessionHist, prevRemote>>

\* One async_parse_documents call, as recorded in the history.
ParseCall(d, ok) == [ids |-> <<d.id>>, ok |-> ok]

\* Mutant: backoff is initialised once, before the for loop, and keeps the
\* value the earlier session left.
StartBackoffOnce(prev) == IF prev = 0 THEN INITIAL_BACKOFF ELSE prev

\* `backoff = INITIAL_BACKOFF` before the polling loop; prev is the value the
\* local held.
StartBackoff(prev) == INITIAL_BACKOFF

\* Mutant: the request is not followed by the polling loop, the for loop goes
\* on to the next document.
ParseRequestOkNoWait ==
  /\ pc = "parse"
  /\ Visit
  /\ NeedsParse(doc')
  /\ parses' = Append(parses, ParseCall(doc', TRUE))
  /\ remote' = WithRun(remote, doc'.id, "RUNNING")
  /\ calls' = calls \cup { "async_parse_documents" }
  /\ lastFetch' = NoFetch
  /\ UNCHANGED <<dataset, pc, proc, page, folder, batch_size, page_size, pollCap, API_KEY,
                 mainLocals, uploadLocals, backoff, uploadHist, polled, slept, sleeps,
                 carried, observed, prevRemote>>

\* async_parse_documents succeeds: the collaborator queues the document, the
\* polling session begins.
ParseRequestOk ==
  /\ pc = "parse"
  /\ Visit
  /\ NeedsParse(doc')
  /\ parses' = Append(parses, ParseCall(doc', TRUE))
  /\ remote' = WithRun(remote, doc'.id, "RUNNING")
  /\ backoff' = StartBackoff(backoff)
  /\ carried' = backoff
  /\ sleeps' = <<>>
  /\ pc' = "poll"
  /\ calls' = calls \cup { "async_parse_documents" }
  /\ lastFetch' = NoFetch
  /\ UNCHANGED <<dataset,
                 proc, page, folder, batch_size, page_size, pollCap, API_KEY, mainLocals,
                 uploadLocals, uploadHist, polled, slept, observed, prevRemote>>

\* Mutant: the `continue` is missing, polling starts after a failed request.
ParseRequestFailsThenPolls ==
  /\ pc = "parse"
  /\ Visit
  /\ NeedsParse(doc')
  /\ parses' = Append(parses, [ids |-> <<doc'.id>>, ok |-> FALSE])
  /\ backoff' = INITIAL_BACKOFF
  /\ carried' = backoff
  /\ sleeps' = <<>>
  /\ pc' = "poll"
  /\ calls' = calls \cup { "async_parse_documents" }
  /\ lastFetch' = NoFetch
  /\ UNCHANGED <<dataset,
                 proc, page, env, mainLocals, uploadLocals, uploadHist, polled, slept,
                 observed, prevRemote>>

\* Mutant: after a failed request the same document is requested again.
ParseRequestFailsRetries ==
  /\ pc = "parse"
  /\ buffer # <<>>
  /\ NeedsParse(Head(buffer))
  /\ doc' = Head(buffer)
  /\ parses' = Append(parses, ParseCall(Head(buffer), FALSE))
  /\ calls' = calls \cup { "async_parse_documents" }
  /\ lastFetch' = NoFetch
  /\ UNCHANGED <<dataset, pc, proc, page, env, mainLocals, uploadLocals, buffer, idx, backoff,
                 uploadHist, visited, polled, slept, sleeps, carried, observed, prevRemote>>

\* async_parse_documents raises: logged, `continue`.
ParseRequestFails ==
  /\ pc = "parse"
  /\ Visit
  /\ NeedsParse(doc')
  /\ parses' = Append(parses, ParseCall(doc', FALSE))
  /\ calls' = calls \cup { "async_parse_documents" }
  /\ lastFetch' = NoFetch
  /\ UNCHANGED <<dataset, pc, proc, page, env, mainLocals, uploadLocals, backoff,
                 uploadHist, polled, slept, sleeps, carried, observed, prevRemote>>

\* time.sleep(backoff); backoff = min(backoff * 2, MAX_BACKOFF). The loop has
\* no bound on its iterations; the history keeps a session's first pollCap
\* sleeps.
SleepAndBackOff ==
  /\ sleeps' = IF Len(sleeps) < pollCap THEN Append(sleeps, backoff) ELSE sleeps
  /\ slept' = slept \cup { doc.id }
  /\ backoff' = NextBackoff(backoff)

\* Mutant: the except branch retries at once, without sleeping or backing off.
PollErrorRetriesAtOnce ==
  /\ pc = "poll"
  /\ polled' = polled \cup { doc.id }
  /\ calls' = calls \cup { "list_documents" }
  /\ lastFetch' = Fetched("error")
  /\ UNCHANGED <<dataset, pc, proc, page, env, mainLocals, uploadLocals, parseLocals,
                 uploadHist, visited, parses, slept, sleeps, carried, observed, prevRemote>>

\* The status fetch raises: logged, sleep, back off, poll again.
PollError ==
  /\ pc = "poll"
  /\ polled' = polled \cup { doc.id }
  /\ SleepAndBackOff
  /\ calls' = calls \cup { "list_documents" }
  /\ lastFetch' = Fetched("error")
  /\ UNCHANGED <<dataset, pc, proc, page, env, mainLocals, uploadLocals, buffer, idx, doc,
                 uploadHist, visited, parses, carried, observed, prevRemote>>

\* Mutant: the loop gives up on a document whose back-off has reached the
\* cap and whose status is still not terminal.
PollPendingGivesUp ==
  /\ pc = "poll"
  /\ polled' = polled \cup { doc.id }
  /\ \E st \in RunStatus \ { "DONE", "FAIL" } :
       /\ remote' = WithRun(remote, doc.id, st)
       /\ lastFetch' = Fetched(st)
  /\ calls' = calls \cup { "list_documents" }
  /\ IF backoff = MAX_BACKOFF
     THEN pc' = "parse" /\ UNCHANGED <<backoff, slept, sleeps>>
     ELSE pc' = pc /\ SleepAndBackOff
  /\ UNCHANGED <<dataset, proc, page, folder, batch_size, page_size, pollCap, API_KEY,
                 mainLocals, uploadLocals, buffer, idx, doc, uploadHist, visited, parses,
                 carried, observed, prevRemote>>

\* The status fetch returns a status that is neither DONE nor FAIL: sleep,
\* back off, poll again.
PollPending ==
  /\ pc = "poll"
  /\ polled' = polled \cup { doc.id }
  /\ \E st \in RunStatus \ { "DONE", "FAIL" } :
       /\ remote' = WithRun(remote, doc.id, st)
       /\ lastFetch' = Fetched(st)
  /\ SleepAndBackOff
  /\ calls' = calls \cup { "list_documents" }
  /\ UNCHANGED <<dataset,
                 pc, proc, page, folder, batch_size, page_size, pollCap, API_KEY, mainLocals,
                 uploadLocals, buffer, idx, doc, uploadHist, visited, parses, carried,
                 observed, prevRemote>>

\* The status fetch returns the terminal status st: the polling loop breaks.
Observe(st) ==
  /\ polled' = polled \cup { doc.id }
  /\ remote' = WithRun(remote, doc.id, st)
  /\ observed' = observed \cup { [id |-> doc.id, run |-> st] }

\* The status fetch returns DONE: logged, break.
PollDone ==
  /\ pc = "poll"
  /\ Observe("DONE")
  /\ pc' = "parse"
  /\ calls' = calls \cup { "list_documents" }
  /\ lastFetch' = Fetched("DONE")
  /\ UNCHANGED <<dataset,
                 proc, page, folder, batch_size, page_size, pollCap, API_KEY, mainLocals,
                 uploadLocals, parseLocals, uploadHist, visited, parses, slept, sleeps,
                 carried, prevRemote>>

\* Mutant: FAIL raises out of parse_sequentially instead of breaking.
PollFailFatal ==
  /\ pc = "poll"
  /\ polled' = polled \cup { doc.id }
  /\ remote' = WithRun(remote, doc.id, "FAIL")
  /\ observed' = observed \cup { [id |-> doc.id, run |-> "FAIL"] }
  /\ pc' = "raised"
  /\ raisedBy' = "FAIL"
  /\ calls' = calls \cup { "list_documents" }
  /\ lastFetch' = Fetched("FAIL")
  /\ UNCHANGED <<dataset,
                 rerun, page, folder, batch_size, page_size, pollCap, API_KEY, mainLocals,
                 uploadLocals, parseLocals, uploadHist, visited, parses, slept, sleeps,
                 carried, prevRemote>>

\* The status fetch returns FAIL: logged, break.
PollFail ==
  /\ pc = "poll"
  /\ Observe("FAIL")
  /\ pc' = "parse"
  /\ calls' = calls \cup { "list_documents" }
  /\ lastFetch' = Fetched("FAIL")
  /\ UNCHANGED <<dataset,
                 proc, page, folder, batch_size, page_size, pollCap, API_KEY, mainLocals,
                 uploadLocals, parseLocals, uploadHist, visited, parses, slept, sleeps,
                 carried, prevRemote>>

\* ------------------------------------------------------------- a new run

\* The script is started again after main returned: a new process, the
\* dataset and the folder as the earlier run left them.
Rerun ==
  /\ pc = "done"
  /\ ~rerun
  /\ rerun' = TRUE
  /\ prevRemote' = remote
  /\ pc' = "start"
  /\ page' = 1 /\ existing' = {} /\ file_paths' = <<>> /\ to_upload' = <<>>
  /\ i' = 0 /\ pos' = 0 /\ docs' = <<>>
  /\ buffer' = <<>> /\ idx' = 0 /\ doc' = NoDoc /\ backoff' = 0
  /\ uploads' = <<>> /\ readFailed' = {}
  /\ visited' = <<>>
  /\ parses' = <<>> /\ polled' = {} /\ slept' = {} /\ sleeps' = <<>> /\ carried' = 0
  /\ observed' = {} /\ lastFetch' = NoFetch /\ calls' = {} /\ dataset' = ""
  /\ UNCHANGED <<raisedBy, env>>

\* --------------------------------------------------------- specifications

NextUpload ==
  \/ BuildDocument
  \/ ReadFails
  \/ EmptyBatch
  \/ UploadOk
  \/ UploadFails

NextParse ==
  \/ ParseListPage
  \/ ParseListEnd
  \/ ParseListRaises
  \/ SkipDone
  \/ ParseRequestOk
  \/ ParseRequestFails
  \/ PollError
  \/ PollPending
  \/ PollDone
  \/ PollFail

Next ==
  \/ ConfigOk
  \/ MissingApiKey
  \/ FindDataset
  \/ DatasetNotFound
  \/ ExistingPage
  \/ ExistingListRaises
  \/ ExistingEnd
  \/ NextUpload
  \/ NextParse
  \/ Rerun

NextFilter ==
  \/ FindDataset
  \/ ExistingPage
  \/ ExistingListRaises
  \/ ExistingEnd

\* Runs of the whole script, and one re-run.
Spec == Init /\ [][Next]_vars

\* main up to the duplicate filter.
SpecFilter == InitFilter /\ [][NextFilter]_vars

\* upload_in_batches alone.
SpecUpload == InitUpload /\ [][NextUpload]_vars

\* parse_sequentially alone.
SpecParse == InitParse /\ [][NextParse]_vars

\* parse_sequentially alone, as a process that takes its next step whenever
\* it has one: the interpreter runs the statements one after the other.
SpecLive == InitLive /\ [][NextParse]_vars /\ WF_vars(NextParse)

\* ----------------------------------------------------------------- claims

\* Ids passed to async_parse_documents in this run.
ParsedIds == UNION { Range(parses[k].ids) : k \in 1..Len(parses) }

\* C1: a document the listing reports as DONE is never passed to
\* async_parse_documents, and no status fetch is issued for it.
C1_DoneNeverParsed ==
  \A k \in 1..Len(visited) :
    visited[k].run = "DONE" =>
      /\ visited[k].id \notin ParsedIds
      /\ visited[k].id \notin polled
      /\ visited[k].id \notin slept

\* C1 witness: the run ended having skipped a DONE document and having
\* parsed and polled another one.
C1_Witness ==
  /\ pc = "done"
  /\ \E k \in 1..Len(visited) : visited[k].run = "DONE"
  /\ ParsedIds # {}
  /\ polled # {}

\* The earlier run ended with every local file's name among the dataset's
\* names and every document of the dataset DONE.
FirstRunLeftAllDone ==
  /\ rerun
  /\ \A n \in 1..Len(prevRemote) : prevRemote[n].run = "DONE"
  /\ \A p \in Range(folder) :
       \E n \in 1..Len(prevRemote) : prevRemote[n].name = DisplayName(p, SOURCE_FOLDER)

\* C2 as stated: a second run on the dataset and the folder as the first run
\* left them issues no upload_documents and no async_parse_documents call.
C2_Original == rerun => (uploads = <<>> /\ parses = <<>>)

\* C2 as amended: the second run issues no upload and no parse request when
\* the first run left every local file uploaded and every document DONE.
C2_RerunIssuesNothing == FirstRunLeftAllDone => (uploads = <<>> /\ parses = <<>>)

\* C2 witness: a second run has ended after a first run that uploaded
\* something and left everything DONE.
C2_Witness ==
  /\ pc = "done"
  /\ FirstRunLeftAllDone
  /\ Len(prevRemote) > MainRemote
  /\ Len(visited) = Len(prevRemote)

\* The POSIX path of each file of Paths relative to SOURCE_FOLDER, written out.
PosixName(p) ==
  CASE p = <<"Papers", "a.txt">> -> "a.txt"
    [] p = <<"Papers", "A.txt">> -> "A.txt"
    [] p = <<"Papers", "sub", "a.txt">> -> "sub/a.txt"
    [] p = <<"Papers", "sub", "b.txt">> -> "sub/b.txt"

\* The position of x in the duplicate-free sequence s.
IndexIn(s, x) == CHOOSE n \in 1..Len(s) : s[n] = x

\* C3: once main has filtered, to_upload holds exactly the local paths whose
\* POSIX relative path is not (by exact string equality) in existing, each
\* once and in the order of file_paths.
C3_UploadListIsFiltered ==
  pc \in { "build", "parse" } =>
    LET keep == { n \in 1..Len(file_paths) : PosixName(file_paths[n]) \notin existing } IN
      /\ Len(to_upload) = Cardinality(keep)
      /\ \A a \in 1..Len(to_upload) : \E n \in keep : file_paths[n] = to_upload[a]
      /\ \A a, b \in 1..Len(to_upload) :
           a < b => IndexIn(file_paths, to_upload[a]) < IndexIn(file_paths, to_upload[b])

\* C3 witness: the filter dropped A.txt, which the dataset holds, and kept
\* a.txt and sub/a.txt, which it does not.
C3_Witness ==
  /\ pc = "build"
  /\ existing = { "A.txt" }
  /\ Len(file_paths) = 3
  /\ Len(to_upload) = 2
  /\ <<"Papers", "a.txt">> \in Range(to_upload)
  /\ <<"Papers", "sub", "a.txt">> \in Range(to_upload)

\* ceil(n / b)
Ceil(n, b) == (n + b - 1) \div b

\* The number of batches of upload_in_batches' input, and the b-th of them.
NBatches == Ceil(Len(to_upload), batch_size)
Chunk(b) == SubSeq(to_upload, (b - 1) * batch_size + 1, Min(b * batch_size, Len(to_upload)))

\* The paths of the b-th batch whose read did not fail, in order.
ReadOk(p) == p \notin readFailed
Readable(b) == SelectSeq(Chunk(b), ReadOk)

\* C4 as stated: when upload_in_batches returns it has issued exactly
\* ceil(N / B) upload_documents calls, each with at most B descriptors,
\* whatever the reads and the submits did.
C4_Original ==
  pc = "parse" =>
    /\ Len(uploads) = NBatches
    /\ \A k \in 1..Len(uploads) : Len(uploads[k].docs) <= batch_size

\* C4 as amended: each call carries between 1 and B descriptors, there are
\* never more than ceil(N / B) calls, and when upload_in_batches returns it
\* has issued one call per batch in which at least one read succeeded.
C4_OneCallPerReadableBatch ==
  /\ \A k \in 1..Len(uploads) : Len(uploads[k].docs) \in 1..batch_size
  /\ Len(uploads) <= NBatches
  /\ pc = "parse" =>
       Len(uploads) = Cardinality({ b \in 1..NBatches : Readable(b) # <<>> })

\* C4 witness: upload_in_batches returned after ceil(N / B) >= 2 calls although
\* a read failed.
C4_Witness ==
  /\ pc = "parse"
  /\ NBatches >= 2
  /\ Len(uploads) = NBatches
  /\ readFailed # {}

\* C5: every upload call carries, in order, exactly the files of its batch
\* whose read succeeded; a file whose read failed is in no call; and a batch
\* with a readable file has got its call when upload_in_batches returns.
C5_ReadFailureLeavesOthers ==
  /\ \A k \in 1..Len(uploads) :
       LET r == Readable(uploads[k].batch) IN
         uploads[k].docs = [n \in 1..Len(r) |-> PosixName(r[n])]
  /\ \A p \in readFailed : \A k \in 1..Len(uploads) : PosixName(p) \notin Range(uploads[k].docs)
  /\ pc = "parse" =>
       \A b \in 1..NBatches :
         Readable(b) # <<>> => \E k \in 1..Len(uploads) : uploads[k].batch = b

\* C5 witness: the first read of a batch of three failed and the call for
\* that batch carried the two other files.
C5_Witness ==
  /\ pc = "parse"
  /\ \E k \in 1..Len(uploads) :
       /\ Len(Chunk(uploads[k].batch)) = 3
       /\ Chunk(uploads[k].batch)[1] \in readFailed
       /\ Len(uploads[k].docs) = 2

\* C6: no exception leaves upload_in_batches; the batches are submitted in
\* order, each at most once; and when it returns, every batch after a failed
\* submit that has a readable file was built and submitted.
C6_SubmitFailureSkipsBatch ==
  /\ raisedBy = ""
  /\ \A j, k \in 1..Len(uploads) : j < k => uploads[j].batch < uploads[k].batch
  /\ pc = "parse" =>
       \A k \in 1..Len(uploads) :
         ~uploads[k].ok =>
           \A b \in (uploads[k].batch + 1)..NBatches :
             Readable(b) # <<>> =>
               \E m \in 1..Len(uploads) :
                 /\ uploads[m].batch = b
                 /\ Len(uploads[m].docs) = Len(Readable(b))

\* C6 witness: a submit failed and the next batch was submitted with success.
C6_Witness ==
  /\ pc = "parse"
  /\ \E k \in 1..Len(uploads) - 1 : ~uploads[k].ok /\ uploads[k + 1].ok

\* 2^n
RECURSIVE Pow2(_)
Pow2(n) == IF n = 0 THEN 1 ELSE 2 * Pow2(n - 1)

\* C7: the k-th sleep of a polling session lasts min(2^(k-1), 16) seconds;
\* the sleeps never decrease and never exceed 16.
C7_BackoffSequence ==
  /\ \A k \in 1..Len(sleeps) : sleeps[k] = Min(Pow2(k - 1), 16)
  /\ \A k \in 1..(Len(sleeps) - 1) : sleeps[k] <= sleeps[k + 1]
  /\ \A k \in 1..Len(sleeps) : sleeps[k] <= 16

\* C7 witness: a session slept 1, 2, 4, 8, 16, 16.
C7_Witness == sleeps = <<1, 2, 4, 8, 16, 16>>

\* C8: a polling session starts with backoff = INITIAL_BACKOFF, and its first
\* sleep lasts INITIAL_BACKOFF.
C8_BackoffReset ==
  /\ (pc = "poll" /\ sleeps = <<>>) => backoff = INITIAL_BACKOFF
  /\ sleeps # <<>> => sleeps[1] = INITIAL_BACKOFF

\* C8 witness: the local backoff had grown to MAX_BACKOFF in an earlier
\* session when this session began, and this session has slept once.
C8_Witness ==
  /\ pc = "poll"
  /\ carried = MAX_BACKOFF
  /\ Len(sleeps) = 1

\* Ids whose polling session a fetch returning FAIL ended.
FailedIds == { o.id : o \in { x \in observed : x.run = "FAIL" } }

\* Ids whose parse request raised.
RequestFailedIds ==
  UNION { Range(parses[k].ids) : k \in { n \in 1..Len(parses) : ~parses[n].ok } }

\* Every document listed after document d that is not listed as DONE has been
\* passed to async_parse_documents.
LaterDocsRequested(d) ==
  \A j, k \in 1..Len(visited) :
    (j < k /\ visited[j].id = d /\ visited[k].run # "DONE") => visited[k].id \in ParsedIds

\* C9: a poll returning FAIL ends the document's session (the process is not
\* polling a document that was seen to FAIL); nothing but a failed listing
\* raises out of parse_sequentially; and when the run ends every document of
\* the dataset was visited and every later document not listed as DONE got
\* its parse request.
C9_FailIsNotFatal ==
  /\ raisedBy \in { "", "list_documents" }
  /\ pc = "poll" => doc.id \notin FailedIds
  /\ pc = "done" =>
       /\ Len(visited) = Len(remote)
       /\ \A d \in FailedIds : LaterDocsRequested(d)

\* C9 witness: the run ended, a document was seen to FAIL and a document
\* listed after it was passed to async_parse_documents.
C9_Witness ==
  /\ pc = "done"
  /\ \E j, k \in 1..Len(visited) :
       j < k /\ visited[j].id \in FailedIds /\ visited[k].id \in ParsedIds

\* C10: a document whose parse request raised is never polled nor slept for,
\* no id is passed to async_parse_documents twice, nothing but a failed
\* listing raises out of parse_sequentially, and when the run ends every
\* later document not listed as DONE got its parse request.
C10_RequestFailureSkipsDocument ==
  /\ raisedBy \in { "", "list_documents" }
  /\ \A d \in RequestFailedIds : d \notin polled /\ d \notin slept
  /\ \A j, k \in 1..Len(parses) : j < k => Range(parses[j].ids) \cap Range(parses[k].ids) = {}
  /\ pc = "done" =>
       /\ Len(visited) = Len(remote)
       /\ \A d \in RequestFailedIds : LaterDocsRequested(d)

\* C10 witness: the run ended, a parse request raised and the request for
\* the next document succeeded and was polled.
C10_Witness ==
  /\ pc = "done"
  /\ \E k \in 1..(Len(parses) - 1) :
       /\ ~parses[k].ok
       /\ parses[k + 1].ok
       /\ parses[k + 1].ids[1] \in polled

\* A status fetch was issued in this step and had the outcome st.
FetchStep(st) == pc = "poll" /\ lastFetch' = [id |-> doc.id, status |-> st]

\* The step slept for the current back-off and advanced it.
SleptAndAdvanced ==
  /\ Len(sleeps) < pollCap => sleeps' = Append(sleeps, backoff)
  /\ doc.id \in slept'
  /\ backoff' = Min(backoff * 2, MAX_BACKOFF)

\* C11: a step in which the status fetch fails leaves the process polling
\* the same document (the session does not end, no parse request is issued,
\* no other document is taken, the dataset is untouched), sleeps for the
\* current back-off and advances the back-off; a step in which the fetch
\* returns a non-terminal status sleeps and advances the back-off the same way.
C11_FetchErrorKeepsPolling ==
  [][ /\ FetchStep("error") =>
           /\ pc' = "poll"
           /\ UNCHANGED <<doc, buffer, idx, page, parses, visited, observed, remote, raisedBy>>
           /\ SleptAndAdvanced
      /\ (FetchStep("UNSTART") \/ FetchStep("RUNNING")) => SleptAndAdvanced ]_vars

\* C11 witness: a session whose latest fetch failed after two sleeps, the
\* process still polling that document with the back-off advanced twice.
C11_Witness ==
  /\ pc = "poll"
  /\ lastFetch = [id |-> doc.id, status |-> "error"]
  /\ sleeps = <<1, 2>>
  /\ backoff = 4

\* The ids of a sequence of documents, in order.
IdsOf(ds) == [k \in 1..Len(ds) |-> ds[k].id]

\* The ids passed to async_parse_documents, call after call.
RequestedIds == [k \in 1..Len(parses) |-> parses[k].ids[1]]

\* The visited documents that were not listed as DONE, in order.
VisitedNotDone ==
  LET notDone(d) == d.run # "DONE" IN SelectSeq(visited, notDone)

\* C12: the documents are visited in the dataset's listing order (the visited
\* documents are, position by position, the first documents of the dataset),
\* the run ends at the first empty page with every document visited, and the
\* sequence of async_parse_documents calls is the sequence of visited
\* documents restricted to those not listed as DONE.
C12_ProcessingOrder ==
  /\ Len(visited) <= Len(remote)
  /\ IdsOf(visited) = IdsOf(SubSeq(remote, 1, Len(visited)))
  /\ \A k \in 1..Len(parses) : Len(parses[k].ids) = 1
  /\ RequestedIds = IdsOf(VisitedNotDone)
  /\ pc = "done" => Len(visited) = Len(remote)

\* C12 witness: a dataset of two documents listed on two pages, the first
\* DONE, the second not: the run ended with one request, for the second.
C12_Witness ==
  /\ pc = "done"
  /\ page_size = 1
  /\ Len(visited) = 2
  /\ visited[1].run = "DONE"
  /\ visited[2].run # "DONE"
  /\ RequestedIds = <<visited[2].id>>

\* The number of documents the successful upload_documents calls us stored.
RECURSIVE StoredBy(_)
StoredBy(us) ==
  IF us = <<>> THEN 0
  ELSE (IF Head(us).ok THEN Len(Head(us).docs) ELSE 0) + StoredBy(Tail(us))

\* The display names the upload_documents calls us carried, call after call.
RECURSIVE Submitted(_)
Submitted(us) == IF us = <<>> THEN <<>> ELSE Head(us).docs \o Submitted(Tail(us))

\* The dataset as it was when this run started: the run only appends to it.
RemoteAtStart == SubSeq(remote, 1, Len(remote) - StoredBy(uploads))

\* The names of a sequence of documents.
NamesOf(ds) == { ds[k].name : k \in 1..Len(ds) }

\* No two documents of ds share a name.
NamesUnique(ds) == \A j, k \in 1..Len(ds) : j # k => ds[j].name # ds[k].name

\* C13: when no two documents of the dataset shared a name as the run
\* started, then at every point of the run, its end included, no two
\* documents of the dataset share a name, no descriptor submitted to
\* upload_documents carries a name the dataset had at the start, and no two
\* submitted descriptors carry the same name.
C13_NoDuplicateNames ==
  NamesUnique(RemoteAtStart) =>
    /\ NamesUnique(remote)
    /\ Range(Submitted(uploads)) \cap NamesOf(RemoteAtStart) = {}
    /\ \A j, k \in 1..Len(Submitted(uploads)) :
         j # k => Submitted(uploads)[j] # Submitted(uploads)[k]

\* C13 witness: the run ended; the dataset held a.txt at the start, which is
\* also a local file, and the run uploaded the other local file only.
C13_Witness ==
  /\ pc = "done"
  /\ IdsOf(RemoteAtStart) = <<1>>
  /\ remote[1].name = "a.txt"
  /\ <<"Papers", "a.txt">> \in Range(file_paths)
  /\ Submitted(uploads) = <<"sub/b.txt">>
  /\ Len(remote) = 2
  /\ remote[2].name = "sub/b.txt"

\* Every read and every upload_documents call of this run succeeded.
AllReadsAndUploadsOk ==
  /\ readFailed = {}
  /\ \A k \in 1..Len(uploads) : uploads[k].ok

\* The relative paths of the local files, as POSIX strings.
LocalNames == { PosixName(folder[k]) : k \in 1..Len(folder) }

\* C14: in a run whose reads and uploads all succeed, once step 4 is over the
\* names submitted to upload_documents are exactly the local relative paths
\* that were not names of the dataset at the start; and when the run ends the
\* listing of step 5 gave every document of the dataset after the upload, and
\* the ids passed to async_parse_documents are exactly those of the documents
\* it did not list as DONE. So every document uploaded in the run was
\* requested in the run, and a document that was there at the start and is
\* listed as DONE was neither requested nor submitted again.
C14_EndToEndSelection ==
  (AllReadsAndUploadsOk /\ pc \in { "parse", "poll", "done" }) =>
    /\ Range(Submitted(uploads)) = LocalNames \ NamesOf(RemoteAtStart)
    /\ Len(Submitted(uploads)) = Cardinality(LocalNames \ NamesOf(RemoteAtStart))
    /\ pc = "done" =>
         /\ IdsOf(visited) = IdsOf(remote)
         /\ ParsedIds = Range(IdsOf(VisitedNotDone))
         /\ \A k \in (Len(RemoteAtStart) + 1)..Len(remote) : remote[k].id \in ParsedIds
         /\ \A k \in 1..Len(RemoteAtStart) :
              visited[k].run = "DONE" =>
                /\ visited[k].id \notin ParsedIds
                /\ visited[k].name \notin Range(Submitted(uploads))

\* C14 witness: the first run ended with every read and upload successful;
\* a.txt was in the dataset, DONE, and is a local file; sub/b.txt was
\* uploaded and requested, a.txt was neither.
C14_Witness ==
  /\ pc = "done"
  /\ ~rerun
  /\ AllReadsAndUploadsOk
  /\ Len(RemoteAtStart) = 1
  /\ visited[1].name = "a.txt" /\ visited[1].run = "DONE"
  /\ "a.txt" \in LocalNames
  /\ Submitted(uploads) = <<"sub/b.txt">>
  /\ ParsedIds = { 2 }
  /\ remote[2].name = "sub/b.txt"

\* No document was listed, uploaded, requested or polled in this run.
NoDocumentCall ==
  /\ calls \cap { "list_documents", "upload_documents", "async_parse_documents" } = {}
  /\ uploads = <<>> /\ parses = <<>> /\ polled = {} /\ visited = <<>>

\* C15: once the dataset lookup was made and no dataset is bound, the process
\* has ended with find_dataset's exception and has issued no document
\* listing, no upload_documents and no async_parse_documents call; once the
\* module body ran with the credential missing, the process has ended with
\* the configuration error and has issued no collaborator call at all.
C15_ConfigurationErrorsAreFatal ==
  /\ ("list_datasets" \in calls /\ dataset = "") =>
       /\ pc = "raised"
       /\ raisedBy = "find_dataset"
       /\ NoDocumentCall
       /\ calls = { "RAGFlow", "list_datasets" }
  /\ (API_KEY = "" /\ pc # "start") =>
       /\ pc = "raised"
       /\ raisedBy = "API_KEY"
       /\ NoDocumentCall
       /\ calls = {}

\* C15 witness: the credential is set, the lookup found no dataset, main
\* ended with find_dataset's exception while the dataset holds a document and
\* the folder holds files.
C15_Witness ==
  /\ pc = "raised"
  /\ raisedBy = "find_dataset"
  /\ API_KEY # ""
  /\ "list_datasets" \in calls
  /\ remote # <<>>
  /\ folder # <<>>

\* Ids whose parse request succeeded in this run.
QueuedIds ==
  UNION { Range(parses[k].ids) : k \in { n \in 1..Len(parses) : parses[n].ok } }

\* Ids queued in this run whose polling session has not ended: no fetch has
\* returned DONE or FAIL for them yet.
OpenSessions == QueuedIds \ { o.id : o \in observed }

\* C16: a parse request is issued only when no session is open; after every
\* step at most one document is queued or being polled: while the process
\* polls, the only open session is that of the current document, and
\* otherwise none is open; and every status fetch since the latest parse
\* request was for the id that request carried.
C16_OneDocumentAtATime ==
  [][ /\ parses' # parses => OpenSessions = {}
      /\ Cardinality(OpenSessions') <= 1
      /\ OpenSessions' = IF pc' = "poll" THEN { doc'.id } ELSE {}
      /\ lastFetch' # NoFetch => lastFetch'.id = parses'[Len(parses')].ids[1] ]_vars

\* C16 witness: the session of the first document has ended in FAIL, the
\* second document was requested and its latest poll returned RUNNING.
C16_Witness ==
  /\ pc = "poll"
  /\ Len(parses) = 2
  /\ parses[1].ids[1] \in FailedIds
  /\ doc.id = parses[2].ids[1]
  /\ lastFetch = [id |-> doc.id, status |-> "RUNNING"]
  /\ OpenSessions = { doc.id }

\* The latest status fetch was for the current document and returned DONE or
\* FAIL.
TerminalFetched ==
  /\ lastFetch.id = doc.id
  /\ lastFetch.status \in { "DONE", "FAIL" }

\* The latest status fetch was for the current document and raised or
\* returned a status that is neither DONE nor FAIL.
NonTerminalFetched ==
  /\ lastFetch.id = doc.id
  /\ lastFetch.status \in { "error", "UNSTART", "RUNNING" }

\* parse_sequentially has ended, by its return or by an exception of the
\* listing, with every document the listing gave visited.
Terminated ==
  /\ pc \in { "done", "raised" }
  /\ buffer = <<>>
  /\ pc = "done" => IdsOf(visited) = IdsOf(remote)

\* C17: a polling session ends only in a step whose status fetch returns DONE
\* or FAIL for the polled document; if every polling session eventually gets
\* such a fetch, parse_sequentially terminates with every listed document
\* visited; and if from some point on a session's fetches only raise or
\* return non-terminal statuses, parse_sequentially never terminates.
C17_PollingTermination ==
  /\ [][(pc = "poll" /\ pc' # "poll") => TerminalFetched']_vars
  /\ [](pc = "poll" => <>TerminalFetched) => <>Terminated
  /\ <>[](pc = "poll" /\ NonTerminalFetched) => []~Terminated

\* C17 witness: the run ended with both documents visited, after a session
\* that went on for at least four unsuccessful polls beyond the recorded one.
C17_Witness ==
  /\ pc = "done"
  /\ Len(visited) = 2
  /\ Cardinality(observed) = 2
  /\ sleeps = <<INITIAL_BACKOFF>>
  /\ backoff = MAX_BACKOFF

\* The number of async_parse_documents calls of this run that carried id d.
RequestsFor(d) == Cardinality({ k \in 1..Len(parses) : d \in Range(parses[k].ids) })

\* C18: with a listing that gives each document on one page only, every
\* async_parse_documents call carries exactly one id, that of a document of
\* the dataset, and no id is carried by more than one call of the run,
\* whether the request raised, the document ended in FAIL or in DONE.
C18_AtMostOneRequestPerDocument ==
  /\ \A k \in 1..Len(parses) :
       /\ Len(parses[k].ids) = 1
       /\ parses[k].ids[1] \in Range(IdsOf(remote))
  /\ \A k \in 1..Len(remote) : RequestsFor(remote[k].id) <= 1

\* C18 witness: the run ended; the dataset is listed on two pages; the
\* request for the first document raised, the second document was requested
\* and ended in FAIL; each id was carried by one call.
C18_Witness ==
  /\ pc = "done"
  /\ page_size = 1
  /\ Len(remote) = 2
  /\ RequestFailedIds = { remote[1].id }
  /\ FailedIds = { remote[2].id }
  /\ RequestsFor(remote[1].id) = 1
  /\ RequestsFor(remote[2].id) = 1

====
